---- MODULE Spec2Model ----
(***************************************************************************)
(* Model of the LVGL watch application (src/src/main.c): platform setup,   *)
(* construction of the Loading and Clock screens and their two timers,     *)
(* the event loop, the two timer callbacks, the clock text formatter and   *)
(* the display flush adapter.                                              *)
(*                                                                         *)
(* Time is in milliseconds.  tick is the toolkit's millisecond counter     *)
(* (lv_tick_get); the system wall clock runs at the same rate from wall0.  *)
(* Time passes in the loop's sleep (SDL_Delay plus whatever the iteration  *)
(* cost); the other steps of main are instantaneous.                       *)
(***************************************************************************)
EXTENDS Integers, Sequences, FiniteSets, TLC

VARIABLES
    pc,          \* position of main()
    res,         \* platform resources: SDL subsystem, window, renderer
    calls,       \* teardown calls made so far, in order
    out,         \* diagnostic lines printed so far, in order
    status,      \* return value of main(), NoStatus while running
    boot,        \* toolkit construction steps done so far, in order
    ui,          \* loading_screen, time_screen, time_label, date_label
    timers,      \* loading_timer, clock_timer
    tick,        \* toolkit time (ms)
    wall0,       \* wall-clock time at tick 0: <<seconds, milliseconds>>
    events,      \* platform event queue
    quit,        \* the loop's quit flag
    iter,        \* number of the current loop iteration
    frame,       \* what the current iteration has done so far, in order
    dirty,       \* the toolkit has an invalidated area to redraw
    hist,        \* history: when timers were created, fired, refreshed
    fl,          \* one call of sdl_display_flush
    px           \* one pixel conversion of sdl_display_flush

mainVars == <<pc, res, calls, out, status, boot, ui, timers, tick, wall0,
              events, quit, iter, frame, dirty, hist>>
vars == <<pc, res, calls, out, status, boot, ui, timers, tick, wall0,
          events, quit, iter, frame, dirty, hist, fl, px>>

----------------------------------------------------------------------------
(* Program constants *)

SCREEN_WIDTH == 172
SCREEN_HEIGHT == 320
BufRows == 10
SplashPeriod == 4000
SplashRepeat == 1
TickPeriod == 1000
DelayMs == 5
RepeatForever == -1
NoStatus == -1

(* Bounds of the model *)

MaxIter == 4          \* loop iterations explored
MaxEvents == 2        \* platform events posted during a run
MaxRegionW == 3       \* width of a flushed region
MaxRegionH == 2       \* height of a flushed region

\* extra time an iteration can take on top of SDL_Delay(5)
Stalls == {0, 990, 2995}
\* wall-clock time at toolkit tick 0, <<seconds since the epoch, ms>>:
\* a few seconds before a midnight (2026-11-01 23:59:55.500 UTC), so that
\* the clock passes 23:59:59 and the date changes within a run
WallStarts == {<<1793577595, 500>>}
EventTypes == {"SDL_QUIT", "SDL_KEYDOWN"}

----------------------------------------------------------------------------
(* Time formatter: time(), localtime(), strftime() *)

Digits == <<"0", "1", "2", "3", "4", "5", "6", "7", "8", "9">>
WeekDays == <<"Sun", "Mon", "Tue", "Wed", "Thu", "Fri", "Sat">>
Months == <<"Jan", "Feb", "Mar", "Apr", "May", "Jun",
            "Jul", "Aug", "Sep", "Oct", "Nov", "Dec">>

\* time(&now): whole seconds since the epoch
Now == wall0[1] + ((wall0[2] + tick) \div 1000)

\* a two-digit, zero-padded decimal field (%H, %M, %S, %d)
TwoDigits(n) == <<Digits[((n \div 10) % 10) + 1], Digits[(n % 10) + 1]>>

RECURSIVE Decimal(_)
\* a decimal field without padding (%Y)
Decimal(n) ==
    IF n < 10 THEN <<Digits[n + 1]>>
    ELSE Append(Decimal(n \div 10), Digits[(n % 10) + 1])

\* localtime(): broken-down time of t seconds since the epoch (zone UTC)
LocalTime(t) ==
    LET days == t \div 86400
        secs == t % 86400
        z    == days + 719468
        era  == z \div 146097
        doe  == z % 146097
        yoe  == (doe - (doe \div 1460) + (doe \div 36524)
                     - (doe \div 146096)) \div 365
        doy  == doe - (365 * yoe + (yoe \div 4) - (yoe \div 100))
        mp   == (5 * doy + 2) \div 153
        mon  == IF mp < 10 THEN mp + 3 ELSE mp - 9
    IN [tm_hour |-> secs \div 3600,
        tm_min  |-> (secs % 3600) \div 60,
        tm_sec  |-> secs % 60,
        tm_wday |-> (days + 4) % 7,
        tm_mday |-> doy - ((153 * mp + 2) \div 5) + 1,
        tm_mon  |-> mon - 1,
        tm_year |-> yoe + era * 400 + (IF mon <= 2 THEN 1 ELSE 0)]

\* a 12-hour clock instead of the 24-hour one
FormatTime12(tm) ==
    TwoDigits(tm.tm_hour % 12) \o <<":">> \o TwoDigits(tm.tm_min)
        \o <<":">> \o TwoDigits(tm.tm_sec)

\* strftime(time_str, ..., "%H:%M:%S", timeinfo)
FormatTime(tm) ==
    TwoDigits(tm.tm_hour) \o <<":">> \o TwoDigits(tm.tm_min)
        \o <<":">> \o TwoDigits(tm.tm_sec)

\* strftime(date_str, ..., "%a, %b %d %Y", timeinfo)
FormatDate(tm) ==
    <<WeekDays[tm.tm_wday + 1], ",", " ", Months[tm.tm_mon + 1], " ">>
        \o TwoDigits(tm.tm_mday) \o <<" ">> \o Decimal(tm.tm_year)

\* the value of a decimal digit character
DigitValue(c) == (CHOOSE i \in 1..10 : Digits[i] = c) - 1

\* reading an HH:MM:SS text back as seconds since midnight
ParseTime(s) ==
    (DigitValue(s[1]) * 10 + DigitValue(s[2])) * 3600
    + (DigitValue(s[4]) * 10 + DigitValue(s[5])) * 60
    + DigitValue(s[7]) * 10 + DigitValue(s[8])

\* the text is of the form HH:MM:SS, a valid 24-hour time
IsClockText(s) ==
    /\ Len(s) = 8
    /\ s[3] = ":" /\ s[6] = ":"
    /\ \A i \in {1, 2, 4, 5, 7, 8} : \E d \in 1..10 : Digits[d] = s[i]
    /\ DigitValue(s[1]) * 10 + DigitValue(s[2]) < 24
    /\ DigitValue(s[4]) * 10 + DigitValue(s[5]) < 60
    /\ DigitValue(s[7]) * 10 + DigitValue(s[8]) < 60

----------------------------------------------------------------------------
(* UI objects and timers *)

NoObj == [created |-> FALSE, hidden |-> FALSE]
NoLabel == [created |-> FALSE, text |-> <<>>]
NoTimer == [exists |-> FALSE, period |-> 0, last_run |-> 0,
            repeat_count |-> 0, paused |-> FALSE]

Visible(obj) == obj.created /\ ~obj.hidden

\* the splash timer left repeating
loading_timer_repeating(t) ==
    [exists |-> TRUE, period |-> SplashPeriod, last_run |-> t,
     repeat_count |-> RepeatForever, paused |-> FALSE]

\* lv_timer_create(loading_timer_cb, 4000, NULL); set_repeat_count(.., 1)
loading_timer_create(t) ==
    [exists |-> TRUE, period |-> SplashPeriod, last_run |-> t,
     repeat_count |-> SplashRepeat, paused |-> FALSE]

\* the tick timer created as a one-shot
clock_timer_oneshot(t) ==
    [exists |-> TRUE, period |-> TickPeriod, last_run |-> t,
     repeat_count |-> 1, paused |-> FALSE]

\* lv_timer_create(clock_update_cb, 1000, NULL)
clock_timer_create(t) ==
    [exists |-> TRUE, period |-> TickPeriod, last_run |-> t,
     repeat_count |-> RepeatForever, paused |-> FALSE]

\* the callback hiding the Loading Screen without showing the Clock Screen
loading_timer_cb_hide_only(u) ==
    [u EXCEPT !.loading_screen.hidden = TRUE]

\* loading_timer_cb: hide the Loading Screen, show the Clock Screen
loading_timer_cb(u) ==
    [u EXCEPT !.loading_screen.hidden = TRUE,
              !.time_screen.hidden = FALSE]

\* update_time_display: both labels rewritten from the system time t
update_time_display(u, t) ==
    [u EXCEPT !.time_label.text = FormatTime(LocalTime(t)),
              !.date_label.text = FormatDate(LocalTime(t))]

\* lv_timer_handler's test of one timer: it exists, runs, and is due
TimerDue(t, now) == t.exists /\ ~t.paused /\ now - t.last_run >= t.period

\* lv_timer_handler's bookkeeping of a timer it has just run: a finite
\* repeat count is decremented and the timer deleted when it reaches 0
TimerAfterRun(t, now) ==
    LET rc == IF t.repeat_count > 0 THEN t.repeat_count - 1
              ELSE t.repeat_count
    IN [t EXCEPT !.repeat_count = rc, !.last_run = now, !.exists = (rc # 0)]

----------------------------------------------------------------------------
(* main(): platform setup *)

LoopPcs == {"loop", "poll", "clear", "handler", "present", "delay"}

\* printf banner lines at the top of main
Start ==
    /\ pc = "start"
    /\ out' = out \o <<"Starting LVGL Watch Application...", "Target display">>
    /\ pc' = "SDL_Init"
    /\ UNCHANGED <<res, calls, status, boot, ui, timers, tick, wall0, events,
                   quit, iter, frame, dirty, hist, fl, px>>

SDLInitOk ==
    /\ pc = "SDL_Init"
    /\ res' = [res EXCEPT !.sdl = "up"]
    /\ pc' = "SDL_CreateWindow"
    /\ UNCHANGED <<calls, out, status, boot, ui, timers, tick, wall0, events,
                   quit, iter, frame, dirty, hist, fl, px>>

SDLInitFail ==
    /\ pc = "SDL_Init"
    /\ out' = Append(out, "SDL_Init Error")
    /\ status' = 1
    /\ pc' = "exit"
    /\ UNCHANGED <<res, calls, boot, ui, timers, tick, wall0, events,
                   quit, iter, frame, dirty, hist, fl, px>>

CreateWindowOk ==
    /\ pc = "SDL_CreateWindow"
    /\ res' = [res EXCEPT !.window = "up"]
    /\ pc' = "SDL_CreateRenderer"
    /\ UNCHANGED <<calls, out, status, boot, ui, timers, tick, wall0, events,
                   quit, iter, frame, dirty, hist, fl, px>>

CreateWindowFail ==
    /\ pc = "SDL_CreateWindow"
    /\ out' = Append(out, "SDL_CreateWindow Error")
    /\ calls' = Append(calls, "SDL_Quit")
    /\ res' = [res EXCEPT !.sdl = "down"]
    /\ status' = 1
    /\ pc' = "exit"
    /\ UNCHANGED <<boot, ui, timers, tick, wall0, events,
                   quit, iter, frame, dirty, hist, fl, px>>

CreateRendererOk ==
    /\ pc = "SDL_CreateRenderer"
    /\ res' = [res EXCEPT !.renderer = "up"]
    /\ pc' = "lv_init"
    /\ UNCHANGED <<calls, out, status, boot, ui, timers, tick, wall0, events,
                   quit, iter, frame, dirty, hist, fl, px>>

\* the failure path leaving the window behind
CreateRendererFailLeak ==
    /\ pc = "SDL_CreateRenderer"
    /\ out' = Append(out, "SDL_CreateRenderer Error")
    /\ calls' = calls \o <<"SDL_Quit">>
    /\ res' = [res EXCEPT !.sdl = "down"]
    /\ status' = 1
    /\ pc' = "exit"
    /\ UNCHANGED <<boot, ui, timers, tick, wall0, events,
                   quit, iter, frame, dirty, hist, fl, px>>

CreateRendererFail ==
    /\ pc = "SDL_CreateRenderer"
    /\ out' = Append(out, "SDL_CreateRenderer Error")
    /\ calls' = calls \o <<"SDL_DestroyWindow", "SDL_Quit">>
    /\ res' = [res EXCEPT !.window = "down", !.sdl = "down"]
    /\ status' = 1
    /\ pc' = "exit"
    /\ UNCHANGED <<boot, ui, timers, tick, wall0, events,
                   quit, iter, frame, dirty, hist, fl, px>>

(* main(): toolkit setup and construction of the screens *)

\* lv_init and lv_disp_draw_buf_init
LvInit ==
    /\ pc = "lv_init"
    /\ boot' = Append(boot, "lv_init")
    /\ pc' = "lv_disp_drv_register"
    /\ UNCHANGED <<res, calls, out, status, ui, timers, tick, wall0, events,
                   quit, iter, frame, dirty, hist, fl, px>>

DispDrvRegister ==
    /\ pc = "lv_disp_drv_register"
    /\ boot' = Append(boot, "lv_disp_drv_register")
    /\ pc' = "lv_indev_drv_register"
    /\ UNCHANGED <<res, calls, out, status, ui, timers, tick, wall0, events,
                   quit, iter, frame, dirty, hist, fl, px>>

IndevDrvRegister ==
    /\ pc = "lv_indev_drv_register"
    /\ boot' = Append(boot, "lv_indev_drv_register")
    /\ pc' = "loading_screen"
    /\ UNCHANGED <<res, calls, out, status, ui, timers, tick, wall0, events,
                   quit, iter, frame, dirty, hist, fl, px>>

\* create_loading_screen: the container and the Welcome label
LoadingScreenCreate ==
    /\ pc = "loading_screen"
    /\ ui' = [ui EXCEPT !.loading_screen = [created |-> TRUE, hidden |-> FALSE],
                        !.welcome_label = [created |-> TRUE,
                                           text |-> <<"Welcome">>]]
    /\ dirty' = TRUE
    /\ boot' = Append(boot, "loading_screen")
    /\ pc' = "loading_timer"
    /\ UNCHANGED <<res, calls, out, status, timers, tick, wall0, events,
                   quit, iter, frame, hist, fl, px>>

\* create_loading_screen: the splash timer
LoadingTimerCreate ==
    /\ pc = "loading_timer"
    /\ timers' = [timers EXCEPT !.loading_timer = loading_timer_create(tick)]
    /\ hist' = [hist EXCEPT !.splashCreated = tick]
    /\ boot' = Append(boot, "loading_timer")
    /\ pc' = "time_screen"
    /\ UNCHANGED <<res, calls, out, status, ui, tick, wall0, events,
                   quit, iter, frame, dirty, fl, px>>

\* the container left without the hidden flag
TimeScreenCreateShown ==
    /\ pc = "time_screen"
    /\ ui' = [ui EXCEPT !.time_screen = [created |-> TRUE, hidden |-> FALSE]]
    /\ dirty' = TRUE
    /\ boot' = Append(boot, "time_screen")
    /\ pc' = "time_labels"
    /\ UNCHANGED <<res, calls, out, status, timers, tick, wall0, events,
                   quit, iter, frame, hist, fl, px>>

\* create_time_screen: the container, from lv_obj_create to
\* lv_obj_add_flag(time_screen, LV_OBJ_FLAG_HIDDEN).  The flag is added six
\* statements after the object is created; nothing else runs in between.
TimeScreenCreate ==
    /\ pc = "time_screen"
    /\ ui' = [ui EXCEPT !.time_screen = [created |-> TRUE, hidden |-> TRUE]]
    /\ dirty' = TRUE
    /\ boot' = Append(boot, "time_screen")
    /\ pc' = "time_labels"
    /\ UNCHANGED <<res, calls, out, status, timers, tick, wall0, events,
                   quit, iter, frame, hist, fl, px>>

\* create_time_screen: the Time and Date labels with their placeholders
TimeLabelsCreate ==
    /\ pc = "time_labels"
    /\ ui' = [ui EXCEPT
                !.time_label = [created |-> TRUE,
                                text |-> <<"0", "0", ":", "0", "0", ":", "0", "0">>],
                !.date_label = [created |-> TRUE, text |-> <<>>]]
    /\ boot' = boot \o <<"time_label", "date_label">>
    /\ pc' = "eager_refresh"
    /\ UNCHANGED <<res, calls, out, status, timers, tick, wall0, events,
                   quit, iter, frame, dirty, hist, fl, px>>

\* create_time_screen: update_time_display()
EagerRefresh ==
    /\ pc = "eager_refresh"
    /\ ui' = update_time_display(ui, Now)
    /\ hist' = [hist EXCEPT !.refreshes =
                    Append(@, [tick |-> tick, now |-> Now,
                               labels |-> ui.time_label.created
                                          /\ ui.date_label.created])]
    /\ boot' = Append(boot, "update_time_display")
    /\ pc' = "clock_timer"
    /\ UNCHANGED <<res, calls, out, status, timers, tick, wall0, events,
                   quit, iter, frame, dirty, fl, px>>

\* create_time_screen: the tick timer; then main's printf before the loop
ClockTimerCreate ==
    /\ pc = "clock_timer"
    /\ timers' = [timers EXCEPT !.clock_timer = clock_timer_create(tick)]
    /\ hist' = [hist EXCEPT !.clockCreated = tick]
    /\ boot' = Append(boot, "clock_timer")
    /\ out' = Append(out, "Loading screen displayed.")
    /\ pc' = "loop"
    /\ UNCHANGED <<res, calls, status, ui, tick, wall0, events,
                   quit, iter, frame, dirty, fl, px>>

----------------------------------------------------------------------------
(* main(): the event loop *)

\* while (!quit): leave the loop, or start the next iteration
LoopExit ==
    /\ pc = "loop"
    /\ quit
    /\ pc' = "cleanup"
    /\ UNCHANGED <<res, calls, out, status, boot, ui, timers, tick, wall0,
                   events, quit, iter, frame, dirty, hist, fl, px>>

LoopEnter ==
    /\ pc = "loop"
    /\ ~quit
    /\ iter < MaxIter
    /\ iter' = iter + 1
    /\ frame' = <<>>
    /\ pc' = "poll"
    /\ UNCHANGED <<res, calls, out, status, boot, ui, timers, tick, wall0,
                   events, quit, dirty, hist, fl, px>>

\* the platform puts an event in the queue
PostEvent ==
    /\ pc \in LoopPcs
    /\ hist.posted < MaxEvents
    /\ \E e \in EventTypes : events' = Append(events, e)
    /\ hist' = [hist EXCEPT !.posted = @ + 1]
    /\ UNCHANGED <<pc, res, calls, out, status, boot, ui, timers, tick, wall0,
                   quit, iter, frame, dirty, fl, px>>

\* an event handler that assigns the flag from every event
PollEventAssign ==
    /\ pc = "poll"
    /\ events # <<>>
    /\ quit' = (Head(events) = "SDL_QUIT")
    /\ hist' = [hist EXCEPT !.quitIter = IF ~quit /\ quit' THEN iter ELSE @]
    /\ events' = Tail(events)
    /\ UNCHANGED <<pc, res, calls, out, status, boot, ui, timers, tick, wall0,
                   iter, frame, dirty, fl, px>>

\* while (SDL_PollEvent(&event)) if (event.type == SDL_QUIT) quit = true;
PollEvent ==
    /\ pc = "poll"
    /\ events # <<>>
    /\ quit' = (quit \/ Head(events) = "SDL_QUIT")
    /\ hist' = [hist EXCEPT !.quitIter = IF ~quit /\ quit' THEN iter ELSE @]
    /\ events' = Tail(events)
    /\ UNCHANGED <<pc, res, calls, out, status, boot, ui, timers, tick, wall0,
                   iter, frame, dirty, fl, px>>

\* SDL_PollEvent returns 0: the queue is drained
PollEmpty ==
    /\ pc = "poll"
    /\ events = <<>>
    /\ frame' = Append(frame, "events_drained")
    /\ pc' = "clear"
    /\ UNCHANGED <<res, calls, out, status, boot, ui, timers, tick, wall0,
                   events, quit, iter, dirty, hist, fl, px>>

\* a loop body presenting right after the clear
RenderClearThenPresent ==
    /\ pc = "clear"
    /\ frame' = Append(frame, "SDL_RenderClear")
    /\ pc' = "present"
    /\ UNCHANGED <<res, calls, out, status, boot, ui, timers, tick, wall0,
                   events, quit, iter, dirty, hist, fl, px>>

\* SDL_SetRenderDrawColor(0, 0, 0, 255); SDL_RenderClear
RenderClear ==
    /\ pc = "clear"
    /\ frame' = Append(frame, "SDL_RenderClear")
    /\ pc' = "handler"
    /\ UNCHANGED <<res, calls, out, status, boot, ui, timers, tick, wall0,
                   events, quit, iter, dirty, hist, fl, px>>

\* lv_timer_handler(): the due timers' callbacks, then the redraw of the
\* invalidated area through the flush callback when the refresh is due
TimerHandler ==
    /\ pc = "handler"
    /\ LET ct == timers.clock_timer
           lt == timers.loading_timer
           ctDue == TimerDue(ct, tick)
           ltDue == TimerDue(lt, tick)
           ctRun == ctDue /\ ct.repeat_count # 0
           ltRun == ltDue /\ lt.repeat_count # 0
           u1 == IF ctRun THEN update_time_display(ui, Now) ELSE ui
           u2 == IF ltRun THEN loading_timer_cb(u1) ELSE u1
           redraw == dirty \/ ltRun \/ (ctRun /\ Visible(ui.time_screen))
           cCb == IF ctRun THEN <<"clock_update_cb">> ELSE <<>>
           lCb == IF ltRun THEN <<"loading_timer_cb">> ELSE <<>>
       IN /\ ui' = u2
          /\ timers' = [loading_timer |-> IF ltDue THEN TimerAfterRun(lt, tick)
                                          ELSE lt,
                        clock_timer |-> IF ctDue THEN TimerAfterRun(ct, tick)
                                        ELSE ct]
          /\ hist' = [hist EXCEPT
                        !.splashFires = IF ltRun THEN Append(@, tick) ELSE @,
                        !.refreshes = IF ctRun
                                      THEN Append(@, [tick |-> tick, now |-> Now,
                                                      labels |-> ui.time_label.created
                                                                 /\ ui.date_label.created])
                                      ELSE @]
          /\ out' = IF ltRun THEN Append(out, "Switched to time display")
                    ELSE out
          /\ \E clockFirst \in BOOLEAN, flush \in BOOLEAN :
                /\ flush => redraw
                /\ dirty' = (redraw /\ ~flush)
                /\ frame' = frame \o <<"lv_timer_handler">>
                               \o (IF clockFirst THEN cCb \o lCb ELSE lCb \o cCb)
                               \o (IF flush
                                   THEN <<"sdl_display_flush", "lv_disp_flush_ready">>
                                   ELSE <<>>)
    /\ pc' = "present"
    /\ UNCHANGED <<res, calls, status, boot, tick, wall0, events, quit, iter,
                   fl, px>>

\* SDL_RenderPresent
RenderPresent ==
    /\ pc = "present"
    /\ frame' = Append(frame, "SDL_RenderPresent")
    /\ pc' = "delay"
    /\ UNCHANGED <<res, calls, out, status, boot, ui, timers, tick, wall0,
                   events, quit, iter, dirty, hist, fl, px>>

\* SDL_Delay(5): the iteration ends DelayMs, or a stall more, later
Delay ==
    /\ pc = "delay"
    /\ \E s \in Stalls : tick' = tick + DelayMs + s
    /\ frame' = Append(frame, "SDL_Delay")
    /\ pc' = "loop"
    /\ UNCHANGED <<res, calls, out, status, boot, ui, timers, wall0,
                   events, quit, iter, dirty, hist, fl, px>>

\* after the loop: destroy renderer, window, platform layer; return 0
Cleanup ==
    /\ pc = "cleanup"
    /\ calls' = calls \o <<"SDL_DestroyRenderer", "SDL_DestroyWindow", "SDL_Quit">>
    /\ res' = [renderer |-> "down", window |-> "down", sdl |-> "down"]
    /\ out' = Append(out, "Application closed.")
    /\ status' = 0
    /\ pc' = "exit"
    /\ UNCHANGED <<boot, ui, timers, tick, wall0, events, quit, iter, frame,
                   dirty, hist, fl, px>>

----------------------------------------------------------------------------
(* sdl_display_flush: the colour conversion of one pixel *)

RedBits == 5
GreenBits == 6
BlueBits == 5

Uint8(v) == v % 256
Shl(v, k) == v * (2 ^ k)

\* LV_COLOR_GET_R / _G / _B of a 16-bit colour packed as R:5 G:6 B:5
ColorGetR(c) == (c \div (2 ^ (GreenBits + BlueBits))) % (2 ^ RedBits)
ColorGetG(c) == (c \div (2 ^ BlueBits)) % (2 ^ GreenBits)
ColorGetB(c) == c % (2 ^ BlueBits)

\* green widened by 3 bits like red and blue
PixelColorGreen3(c) ==
    <<Uint8(Shl(ColorGetR(c), 3)), Uint8(Shl(ColorGetG(c), 3)),
      Uint8(Shl(ColorGetB(c), 3)), 255>>

\* the arguments of SDL_SetRenderDrawColor: r, g, b, a as Uint8
PixelColor(c) ==
    <<Uint8(Shl(ColorGetR(c), 3)), Uint8(Shl(ColorGetG(c), 2)),
      Uint8(Shl(ColorGetB(c), 3)), 255>>

NoPx == [c |-> 0, rgba |-> <<>>]

ConvertPixel ==
    /\ px.rgba = <<>>
    /\ px' = [px EXCEPT !.rgba = PixelColor(px.c)]
    /\ UNCHANGED <<pc, res, calls, out, status, boot, ui, timers, tick, wall0,
                   events, quit, iter, frame, dirty, hist, fl>>

----------------------------------------------------------------------------
(* sdl_display_flush: one call *)

\* colours the toolkit renders into a draw buffer
BufColors == <<0, 65535, 2016, 63519>>
BufColor(seed, i) == BufColors[((seed + i) % Len(BufColors)) + 1]

\* the regions the toolkit hands over: inside the display, at most
\* SCREEN_WIDTH * BufRows pixels
Areas ==
    {[x1 |-> x, y1 |-> y, x2 |-> x + w - 1, y2 |-> y + h - 1] :
        <<x, y, w, h>> \in {q \in {0, SCREEN_WIDTH - MaxRegionW, SCREEN_WIDTH - 1}
                                  \X {0, SCREEN_HEIGHT - MaxRegionH, SCREEN_HEIGHT - 1}
                                  \X (1..MaxRegionW) \X (1..MaxRegionH) :
                               /\ q[1] + q[3] <= SCREEN_WIDTH
                               /\ q[2] + q[4] <= SCREEN_HEIGHT
                               /\ q[3] * q[4] <= SCREEN_WIDTH * BufRows}}

AreaW(a) == a.x2 - a.x1 + 1
AreaH(a) == a.y2 - a.y1 + 1

\* the index computed with the width one short
IdxShort(a, x, y) == (y - a.y1) * (a.x2 - a.x1) + (x - a.x1)

\* int idx = (y - area->y1) * (area->x2 - area->x1 + 1) + (x - area->x1)
Idx(a, x, y) == (y - a.y1) * (a.x2 - a.x1 + 1) + (x - a.x1)

NoFlush == [pc |-> "idle", area |-> [x1 |-> 0, y1 |-> 0, x2 |-> 0, y2 |-> 0],
            buf |-> 1, seed |-> 0, x |-> 0, y |-> 0,
            reads |-> <<>>, writes |-> <<>>, ready |-> 0,
            owner |-> "toolkit", lateReads |-> 0]

\* the toolkit calls flush_cb with a region and one of its two buffers
FlushCall ==
    /\ fl.pc = "idle"
    /\ \E a \in Areas, b \in {1, 2}, sd \in {0, 1} :
          fl' = [pc |-> "loop", area |-> a, buf |-> b, seed |-> sd,
                 x |-> a.x1, y |-> a.y1, reads |-> <<>>, writes |-> <<>>,
                 ready |-> 0, owner |-> "adapter", lateReads |-> 0]
    /\ UNCHANGED <<pc, res, calls, out, status, boot, ui, timers, tick, wall0,
                   events, quit, iter, frame, dirty, hist, px>>

\* one pass of the inner loop body: read color_p[idx], draw the point
FlushPixel ==
    /\ fl.pc = "loop"
    /\ fl.y <= fl.area.y2
    /\ LET i == Idx(fl.area, fl.x, fl.y)
           rowEnd == fl.x + 1 > fl.area.x2
       IN fl' = [fl EXCEPT
                   !.reads = Append(@, i),
                   !.writes = Append(@, [x |-> fl.x, y |-> fl.y,
                                         rgba |-> PixelColor(BufColor(fl.seed, i))]),
                   !.lateReads = IF fl.owner = "adapter" THEN @ ELSE @ + 1,
                   !.x = IF rowEnd THEN fl.area.x1 ELSE fl.x + 1,
                   !.y = IF rowEnd THEN fl.y + 1 ELSE fl.y]
    /\ UNCHANGED <<pc, res, calls, out, status, boot, ui, timers, tick, wall0,
                   events, quit, iter, frame, dirty, hist, px>>

\* lv_disp_flush_ready(disp_drv) after the loops
FlushReady ==
    /\ fl.pc = "loop"
    /\ fl.y > fl.area.y2
    /\ fl' = [fl EXCEPT !.pc = "idle", !.ready = @ + 1, !.owner = "toolkit"]
    /\ UNCHANGED <<pc, res, calls, out, status, boot, ui, timers, tick, wall0,
                   events, quit, iter, frame, dirty, hist, px>>

----------------------------------------------------------------------------
(* Specifications *)

NoUi == [loading_screen |-> NoObj, welcome_label |-> NoLabel,
         time_screen |-> NoObj, time_label |-> NoLabel, date_label |-> NoLabel]
NoHist == [splashCreated |-> 0, clockCreated |-> 0, splashFires |-> <<>>,
           refreshes |-> <<>>, quitIter |-> 0, posted |-> 0]

InitMain(p) ==
    /\ pc = p
    /\ res = [sdl |-> "none", window |-> "none", renderer |-> "none"]
    /\ calls = <<>>
    /\ out = <<>>
    /\ status = NoStatus
    /\ boot = <<>>
    /\ ui = NoUi
    /\ timers = [loading_timer |-> NoTimer, clock_timer |-> NoTimer]
    /\ tick = 0
    /\ events = <<>>
    /\ quit = FALSE
    /\ iter = 0
    /\ frame = <<>>
    /\ dirty = FALSE
    /\ hist = NoHist

\* the program at the entry of main
Init ==
    /\ InitMain("start")
    /\ wall0 \in WallStarts
    /\ fl = NoFlush
    /\ px = NoPx

Main ==
    \/ Start
    \/ SDLInitOk \/ SDLInitFail
    \/ CreateWindowOk \/ CreateWindowFail
    \/ CreateRendererOk \/ CreateRendererFail
    \/ LvInit \/ DispDrvRegister \/ IndevDrvRegister
    \/ LoadingScreenCreate \/ LoadingTimerCreate
    \/ TimeScreenCreate \/ TimeLabelsCreate
    \/ EagerRefresh \/ ClockTimerCreate
    \/ LoopExit \/ LoopEnter
    \/ PollEvent \/ PollEmpty
    \/ RenderClear \/ TimerHandler \/ RenderPresent \/ Delay
    \/ Cleanup

Next == Main \/ PostEvent

Spec == Init /\ [][Next]_vars

\* main is a sequential program: it takes its next step whenever it has one
\* (the platform posts finitely many events, so the drain loop ends)
FairSpec == Spec /\ WF_vars(Main)

\* the flush adapter on its own: the toolkit calls it again and again
InitFlush ==
    /\ InitMain("off")
    /\ wall0 = <<0, 0>>
    /\ fl = NoFlush
    /\ px = NoPx

NextFlush == FlushCall \/ FlushPixel \/ FlushReady

SpecFlush == InitFlush /\ [][NextFlush]_vars

\* the colour conversion on its own, for every 16-bit colour
InitColor ==
    /\ InitMain("off")
    /\ wall0 = <<0, 0>>
    /\ fl = NoFlush
    /\ px \in [c : 0..65535, rgba : {<<>>}]

NextColor == ConvertPixel

SpecColor == InitColor /\ [][NextColor]_vars

----------------------------------------------------------------------------
(* Properties *)

Last(q) == q[Len(q)]
Has(q, e) == \E i \in DOMAIN q : q[i] = e
IsPrefix(p, q) == Len(p) <= Len(q) /\ \A i \in DOMAIN p : p[i] = q[i]

\* startup construction has completed (main has reached its loop)
Constructed ==
    pc \in LoopPcs \cup {"cleanup"} \/ (pc = "exit" /\ status = 0)

SplashFired == hist.splashFires # <<>>

\* C1: from the end of construction on, exactly one of the two screens is
\* visible between loop steps: the Loading Screen (Clock hidden) until the
\* splash callback has run, the Clock Screen (Loading hidden) afterwards, and
\* once the Clock Screen is shown this never reverts.
C1_ExclusiveVisibility ==
    /\ [](Constructed =>
            /\ Visible(ui.loading_screen) # Visible(ui.time_screen)
            /\ ~SplashFired =>
                 Visible(ui.loading_screen) /\ ~Visible(ui.time_screen)
            /\ SplashFired =>
                 ~Visible(ui.loading_screen) /\ Visible(ui.time_screen))
    /\ [][(Constructed /\ Visible(ui.time_screen)) =>
            (Visible(ui'.time_screen) /\ ~Visible(ui'.loading_screen))]_vars

C1_Witness ==
    /\ pc = "present"
    /\ Has(frame, "loading_timer_cb")
    /\ Visible(ui.time_screen) /\ ~Visible(ui.loading_screen)

\* C2: the splash callback fires exactly once: never while fewer than 4000 ms
\* of toolkit time have passed since the splash timer was created, always in
\* a handler call made once that time has passed, and never again, the timer
\* being gone after it fired.
C2_SplashOnce ==
    /\ Len(hist.splashFires) <= 1
    /\ \A i \in DOMAIN hist.splashFires :
          hist.splashFires[i] - hist.splashCreated >= SplashPeriod
    /\ (Constructed /\ tick - hist.splashCreated < SplashPeriod) => ~SplashFired
    /\ (pc \in {"present", "delay"}
          /\ tick - hist.splashCreated >= SplashPeriod) => SplashFired
    /\ SplashFired => ~timers.loading_timer.exists
    /\ (Constructed /\ ~SplashFired) =>
          /\ timers.loading_timer.exists
          /\ timers.loading_timer.last_run = hist.splashCreated

C2_Witness ==
    /\ pc = "present"
    /\ SplashFired
    /\ tick > hist.splashFires[1]

\* C3: the clock text is refreshed once during Clock Screen construction and
\* then by the tick timer: whenever the handler runs 1000 ms or more after
\* the timer last ran, at most once per 1000 ms, whichever screen is
\* visible; the tick timer stays in place, repeating and unpaused, and every
\* refresh finds the Time and Date labels created.
C3_PeriodicRefresh ==
    LET r == hist.refreshes
    IN /\ \A i \in DOMAIN r : r[i].labels
       /\ (r # <<>>) <=> Has(boot, "update_time_display")
       /\ Has(boot, "clock_timer") => r # <<>> /\ r[1].tick <= hist.clockCreated
       /\ \A i \in DOMAIN r : i > 1 => r[i].tick - r[i - 1].tick >= TickPeriod
       /\ Constructed =>
            /\ timers.clock_timer.exists
            /\ ~timers.clock_timer.paused
            /\ timers.clock_timer.period = TickPeriod
            /\ timers.clock_timer.repeat_count = RepeatForever
            /\ ui.time_label.text = FormatTime(LocalTime(Last(r).now))
            /\ ui.date_label.text = FormatDate(LocalTime(Last(r).now))
       /\ pc \in {"present", "delay"} => tick - Last(r).tick < TickPeriod

C3_Witness ==
    /\ pc = "present"
    /\ Len(hist.refreshes) >= 4
    /\ SplashFired
    /\ hist.refreshes[2].tick < hist.splashFires[1]
    /\ Last(hist.refreshes).tick > hist.splashFires[1]

LoopSteps == <<"events_drained", "SDL_RenderClear", "lv_timer_handler",
               "SDL_RenderPresent", "SDL_Delay">>
HandlerWork == {"clock_update_cb", "loading_timer_cb", "sdl_display_flush",
                "lv_disp_flush_ready"}

\* the steps an iteration has done when main is at p
StepsDoneAt(p) ==
    CASE p = "poll" -> 0
      [] p = "clear" -> 1
      [] p = "handler" -> 2
      [] p = "present" -> 3
      [] p = "delay" -> 4
      [] OTHER -> 5

\* C4: every iteration drains the event queue (a close event sets the quit
\* flag, any other event is dropped), then clears, then runs the handler,
\* then presents, then sleeps; callbacks and flushes lie after the clear and
\* the handler call and before the present of their iteration.
C4_IterationOrder ==
    /\ [](iter > 0 =>
            LET main == SelectSeq(frame, LAMBDA e : e \notin HandlerWork)
            IN /\ main = SubSeq(LoopSteps, 1, StepsDoneAt(pc))
               /\ \A i \in DOMAIN frame :
                     frame[i] \in HandlerWork =>
                        /\ \E j \in 1..(i - 1) : frame[j] = "SDL_RenderClear"
                        /\ \E j \in 1..(i - 1) : frame[j] = "lv_timer_handler"
                        /\ \A j \in 1..(i - 1) : frame[j] # "SDL_RenderPresent"
               /\ \A i \in DOMAIN frame :
                     frame[i] = "SDL_RenderPresent" =>
                        \E j \in 1..(i - 1) : frame[j] = "lv_timer_handler")
    /\ [][(pc = "poll" /\ pc' # "poll") => (events = <<>> /\ pc' = "clear")]_vars
    /\ [][(pc = "poll" /\ Len(events') < Len(events)) =>
            /\ events' = Tail(events)
            /\ quit' = (quit \/ Head(events) = "SDL_QUIT")
            /\ UNCHANGED <<ui, timers, frame, dirty, res, calls>>]_vars

C4_Witness ==
    /\ pc = "loop"
    /\ Has(frame, "loading_timer_cb")
    /\ Has(frame, "clock_update_cb")
    /\ Has(frame, "sdl_display_flush")
    /\ Last(frame) = "SDL_Delay"

\* C5: the quit flag is set only by a drained close event and never cleared;
\* once set, the loop finishes the iteration that drained it and exits; main
\* then destroys renderer, window and platform layer once each and returns
\* 0; main does not leave the loop without the flag.
C5_QuitTerminates ==
    /\ []((pc = "cleanup" \/ (pc = "exit" /\ status = 0)) => quit)
    /\ [](status = 0 =>
            /\ pc = "exit"
            /\ calls = <<"SDL_DestroyRenderer", "SDL_DestroyWindow", "SDL_Quit">>
            /\ res = [renderer |-> "down", window |-> "down", sdl |-> "down"])
    /\ []((quit /\ pc \in LoopPcs) => iter = hist.quitIter)
    /\ [][quit => quit']_vars
    /\ [][(~quit /\ quit') =>
            (pc = "poll" /\ events # <<>> /\ Head(events) = "SDL_QUIT")]_vars
    /\ [][(quit /\ pc = "loop") => pc' \in {"loop", "cleanup"}]_vars
    /\ (quit ~> (pc = "exit" /\ status = 0))

C5_Witness ==
    /\ pc = "exit"
    /\ status = 0
    /\ hist.quitIter > 1
    /\ SplashFired

\* the resources a failed start-up has created, by the diagnostic printed
CreatedBefore(msg) ==
    CASE msg = "SDL_Init Error" -> <<>>
      [] msg = "SDL_CreateWindow Error" -> <<"SDL_Quit">>
      [] msg = "SDL_CreateRenderer Error" -> <<"SDL_DestroyWindow", "SDL_Quit">>
      [] OTHER -> <<"none">>

\* C6: when a platform-init step fails, main prints one diagnostic, tears
\* down exactly what had been created (in reverse order, nothing twice,
\* nothing left up), returns 1 and takes no further step; the toolkit is not
\* initialised, no driver, screen or timer exists, and the loop is not
\* entered.
C6_InitFailure ==
    /\ [](status = 1 =>
            /\ pc = "exit"
            /\ Len(out) = 3
            /\ calls = CreatedBefore(Last(out))
            /\ \A r \in DOMAIN res : res[r] # "up"
            /\ res.sdl = (IF Has(calls, "SDL_Quit") THEN "down" ELSE "none")
            /\ res.window = (IF Has(calls, "SDL_DestroyWindow") THEN "down"
                             ELSE "none")
            /\ res.renderer = "none"
            /\ boot = <<>>
            /\ ui = NoUi
            /\ ~timers.loading_timer.exists /\ ~timers.clock_timer.exists
            /\ iter = 0 /\ frame = <<>>
            /\ hist = NoHist)
    /\ [][status # 1]_vars

C6_Witness ==
    /\ status = 1
    /\ calls = <<"SDL_DestroyWindow", "SDL_Quit">>

\* C7: a 5-6-5 colour (R, G, B) is emitted as (R*8, G*4, B*8, 255): black
\* stays (0,0,0), the maximum becomes (248,252,248), every channel fits in 8
\* bits, and the low 3 (red, blue) or 2 (green) bits are zero.
C7_ColorExpansion ==
    px.rgba # <<>> =>
        LET r == px.c \div 2048
            g == (px.c \div 32) % 64
            b == px.c % 32
        IN /\ r \in 0..31 /\ g \in 0..63 /\ b \in 0..31
           /\ px.rgba = <<r * 8, g * 4, b * 8, 255>>
           /\ \A i \in 1..4 : px.rgba[i] \in 0..255
           /\ px.rgba[1] % 8 = 0 /\ px.rgba[2] % 4 = 0 /\ px.rgba[3] % 8 = 0
           /\ px.c = 0 => px.rgba = <<0, 0, 0, 255>>
           /\ px.c = 65535 => px.rgba = <<248, 252, 248, 255>>

C7_Witness ==
    /\ px.c = 65535
    /\ px.rgba = <<248, 252, 248, 255>>

\* C8: a flush call writes each pixel of its region once, at its absolute
\* position, from the buffer entry at the row-major index, which stays
\* within 0..width*height-1; it signals completion once, after the last
\* pixel, and reads nothing of the buffer once the toolkit has it back.
C8_FlushHandoff ==
    LET a == fl.area
        n == Len(fl.writes)
    IN /\ Len(fl.reads) = n
       /\ n <= AreaW(a) * AreaH(a)
       /\ \A k \in 1..n :
             /\ fl.reads[k] = k - 1
             /\ fl.reads[k] \in 0..(AreaW(a) * AreaH(a) - 1)
             /\ fl.reads[k] < SCREEN_WIDTH * BufRows
             /\ fl.writes[k].x = a.x1 + ((k - 1) % AreaW(a))
             /\ fl.writes[k].y = a.y1 + ((k - 1) \div AreaW(a))
             /\ fl.writes[k].x \in 0..(SCREEN_WIDTH - 1)
             /\ fl.writes[k].y \in 0..(SCREEN_HEIGHT - 1)
             /\ fl.writes[k].rgba = PixelColor(BufColor(fl.seed, fl.reads[k]))
       /\ \A k \in 1..n : \A m \in 1..n :
             (fl.writes[k].x = fl.writes[m].x /\ fl.writes[k].y = fl.writes[m].y)
                => k = m
       /\ fl.ready <= 1
       /\ fl.ready = 1 => (n = AreaW(a) * AreaH(a) /\ fl.pc = "idle")
       /\ fl.pc = "loop" => (fl.ready = 0 /\ fl.owner = "adapter")
       /\ (fl.pc = "idle" /\ n > 0) => fl.ready = 1
       /\ fl.lateReads = 0
       /\ fl.owner = "toolkit" <=> fl.pc = "idle"

C8_Witness ==
    /\ fl.pc = "idle"
    /\ fl.ready = 1
    /\ AreaW(fl.area) > 1 /\ AreaH(fl.area) > 1
    /\ fl.area.x1 > 0 /\ fl.area.y1 > 0
    /\ Len(fl.writes) = AreaW(fl.area) * AreaH(fl.area)

\* the handler call that has just run fired the splash callback
JustSwitched == pc = "present" /\ Has(frame, "loading_timer_cb")

\* C9 as stated: when the transition fires the Time label shows the system
\* time of that instant.
C9_ShowsTimeOfTransition ==
    JustSwitched =>
        /\ Len(hist.refreshes) >= 1
        /\ ui.time_label.text = FormatTime(LocalTime(Now))

\* C9: when the transition fires and the Clock Screen becomes visible, the
\* Time label has been refreshed at least once and shows, as a valid
\* HH:MM:SS text, the system time read by the most recent refresh, which is
\* not later than the instant of the transition.
C9_ShowsTimeOfLastRefresh ==
    JustSwitched =>
        /\ Visible(ui.time_screen)
        /\ Len(hist.refreshes) >= 1
        /\ IsClockText(ui.time_label.text)
        /\ ParseTime(ui.time_label.text) = Last(hist.refreshes).now % 86400
        /\ Last(hist.refreshes).now <= Now

C9_Witness ==
    /\ JustSwitched
    /\ Last(hist.refreshes).now < Now
    /\ ParseTime(ui.time_label.text) >= 12 * 3600

BootOrder == <<"lv_init", "lv_disp_drv_register", "lv_indev_drv_register",
               "loading_screen", "loading_timer", "time_screen",
               "time_label", "date_label", "update_time_display",
               "clock_timer">>

====
